---- MODULE Spec2Model ----
(***************************************************************************)
(* Interview verification gate, job catalog and job matcher of the         *)
(* hackx-project backend (Express routes over RAGService,                  *)
(* AnswerEvaluationService, QuestionGenerationService and EmailService).   *)
(*                                                                         *)
(* Three specifications share the variables:                               *)
(*   SpecEval  the questions / answers routes with the session cache,      *)
(*   Spec      the jobs routes (load-data, match) next to the evaluation   *)
(*             that is meant to gate them,                                 *)
(*   SpecApply the apply route (batch e-mail dispatch).                    *)
(* Text values (question text, answers, feedback) are tokens [tag, n];     *)
(* skill names are sequences of one-character strings.                     *)
(***************************************************************************)
EXTENDS Integers, Sequences, FiniteSets, TLC

VARIABLES
    geminiApiKey,     \* process.env.GEMINI_API_KEY is configured
    ev,               \* the POST /evaluate request being served
    evaluationCache,  \* the Map sessionId -> evaluationResult of the answers route
    gen,              \* the POST /generate request waiting for the QuestionOracle
    serverVerified,   \* some evaluateAllAnswers so far returned is_verified = true
    jobs,             \* RAGService.jobs, the catalog
    jobIndex,         \* RAGService.jobIndex, id -> job
    load,             \* the loadJobsData stream being read
    overlap,          \* a second loadJobsData stream read at the same time
    apply,            \* the POST /apply request being served
    out               \* the exchange completed by the step just taken (or NoOut)

evalVars == <<geminiApiKey, ev, evaluationCache, gen, serverVerified>>
jobVars == <<jobs, jobIndex, load, overlap>>

----------------------------------------------------------------------------
(* Bounds of the model *)

\* longest questions / answers array of an evaluate request
MaxQ == 2
\* most questions the QuestionOracle returns in one response
MaxGen == 6
\* largest topK of a match request
MaxTopK == 2
\* longest matchedJobs array of an apply request
MaxJobs == 3

----------------------------------------------------------------------------
(* Values *)

\* JavaScript NaN (0 / 0 in evaluateAllAnswers); every comparison with it is false
NaN == -1

Tok(tag, n) == [tag |-> tag, n |-> n]
Undefined == Tok("undefined", 0)

\* obj.f in JavaScript: undefined when the property is absent
Field(obj, f) == IF f \in DOMAIN obj THEN obj[f] ELSE Undefined

Sessions == {"s1"}

\* array[i] in JavaScript (i counted from 1 here): undefined past the end
At(array, i) == IF i \in DOMAIN array THEN array[i] ELSE Undefined

Last(s) == s[Len(s)]

SeqMap(Op(_), s) == [i \in 1..Len(s) |-> Op(s[i])]

RECURSIVE SumSeq(_)
SumSeq(s) == IF s = <<>> THEN 0 ELSE s[1] + SumSeq(Tail(s))

Max(a, b) == IF a >= b THEN a ELSE b
Min(a, b) == IF a <= b THEN a ELSE b

\* Math.round of the non-negative rational num / den (halves round up)
RoundDiv(num, den) == (2 * num + den) \div (2 * den)

----------------------------------------------------------------------------
(* QuestionGenerationService and POST /api/questions/generate *)

\* The i-th question object of a QuestionOracle response
OracleQuestion(i) ==
    [id |-> i, skill |-> Tok("skill", i), question |-> Tok("question", i),
     correct_answer |-> Tok("ref", i), difficulty |-> "medium",
     keywords |-> Tok("keywords", i)]

\* generateQuestions keeps the first five questions of the parsed response
generateQuestions(response) == SubSeq(response, 1, Min(5, Len(response)))

validateQuestions(questions) ==
    /\ Len(questions) = 5
    /\ \A i \in 1..Len(questions) :
          /\ "id" \in DOMAIN questions[i]
          /\ "skill" \in DOMAIN questions[i]
          /\ "question" \in DOMAIN questions[i]
          /\ "correct_answer" \in DOMAIN questions[i]
          /\ "difficulty" \in DOMAIN questions[i]
          /\ "keywords" \in DOMAIN questions[i]

questionsForUIWithAnswer(q) ==
    [id |-> q.id, skill |-> q.skill, question |-> q.question,
     difficulty |-> q.difficulty, correct_answer |-> q.correct_answer]

\* questionRoutes.js: the question object sent to the frontend
questionsForUI(q) ==
    [id |-> q.id, skill |-> q.skill, question |-> q.question,
     difficulty |-> q.difficulty]

NoOut == [route |-> "none", status |-> 0]

\* A completed exchange: the request body, the response, and the oracle calls
\* that were made to serve it
Reply(route, request, status, body, calls) ==
    [route |-> route, request |-> request, status |-> status, body |-> body,
     calls |-> calls]

ErrorBody(msg) == [success |-> FALSE, error |-> msg]

GenIdle == [pc |-> "idle"]

\* POST /generate up to the await of the oracle call
GenerateRequest(body) ==
    /\ gen.pc = "idle"
    /\ ev.pc = "idle"
    /\ IF "skills" \notin DOMAIN body \/ body.skills = <<>>
       THEN /\ out' = Reply("generate", body, 400,
                            ErrorBody("skills array is required and must not be empty"),
                            <<>>)
            /\ gen' = gen
       ELSE IF ~geminiApiKey
       THEN /\ out' = Reply("generate", body, 500,
                            ErrorBody("GEMINI_API_KEY not configured"), <<>>)
            /\ gen' = gen
       ELSE /\ gen' = [pc |-> "waiting", body |-> body]
            /\ out' = NoOut
    /\ UNCHANGED <<geminiApiKey, ev, evaluationCache, serverVerified, jobVars, apply>>

\* The QuestionOracle answers with n well-formed questions
QuestionOracleReturns(n) ==
    /\ gen.pc = "waiting"
    /\ gen' = GenIdle
    /\ LET questions == generateQuestions([i \in 1..n |-> OracleQuestion(i)])
       IN  out' = IF ~validateQuestions(questions)
                  THEN Reply("generate", gen.body, 500,
                             ErrorBody("Generated questions do not meet validation criteria"),
                             <<n>>)
                  ELSE Reply("generate", gen.body, 200,
                             [success |-> TRUE,
                              questions |-> SeqMap(questionsForUI, questions),
                              total_questions |-> Len(questions)],
                             <<n>>)
    /\ UNCHANGED <<geminiApiKey, ev, evaluationCache, serverVerified, jobVars, apply>>

\* The QuestionOracle call throws (network error, unparsable response)
QuestionOracleFails ==
    /\ gen.pc = "waiting"
    /\ gen' = GenIdle
    /\ out' = Reply("generate", gen.body, 500,
                    ErrorBody("Failed to generate questions"), <<>>)
    /\ UNCHANGED <<geminiApiKey, ev, evaluationCache, serverVerified, jobVars, apply>>

----------------------------------------------------------------------------
(* AnswerEvaluationService *)

\* A parsed EvaluationOracle response
OracleReply(score, accuracy, completeness, clarity, keyword_score, verdict) ==
    [score |-> score, accuracy |-> accuracy, completeness |-> completeness,
     clarity |-> clarity, keyword_score |-> keyword_score, verdict |-> verdict,
     feedback |-> Tok("feedback", score)]

\* The responses the oracle is taken to give: in range and consistent (69, 70),
\* below 0 and above 100
OracleReplies ==
    { OracleReply(-10, 0, 0, 0, 0, "fail"),
      OracleReply(69, 28, 20, 14, 7, "fail"),
      OracleReply(70, 30, 20, 14, 6, "pass"),
      OracleReply(130, 40, 30, 20, 10, "pass") }

\* x >= y in JavaScript, x possibly NaN
JsGE(x, y) == x # NaN /\ x >= y

\* x + y in JavaScript, either possibly NaN
JsAdd(x, y) == IF x = NaN \/ y = NaN THEN NaN ELSE x + y

Unclamped(score) == score

\* Math.max(0, Math.min(100, score)); NaN for a score that is not a number
Clamp(score) == IF score = NaN THEN NaN ELSE Max(0, Min(100, score))

\* evaluateAnswer after the oracle call returned: clamp the score, add passed
evaluateAnswer(reply) ==
    LET score == Clamp(reply.score)
    IN  [score |-> score, accuracy |-> reply.accuracy,
         completeness |-> reply.completeness, clarity |-> reply.clarity,
         keyword_score |-> reply.keyword_score, verdict |-> reply.verdict,
         feedback |-> reply.feedback, passed |-> JsGE(score, 70)]

\* The entry evaluateAllAnswers pushes for question q, answer a
IndividualEvaluation(q, a, evaluation) ==
    [question_id |-> Field(q, "id"), skill |-> Field(q, "skill"),
     question |-> Field(q, "question"), user_answer |-> a,
     evaluation |-> evaluation]

passingThreshold == 70

IsVerifiedRounded(totalScore, n) ==
    IF n = 0 THEN FALSE ELSE RoundDiv(totalScore, n) >= passingThreshold

\* averageScore >= passingThreshold on the unrounded quotient totalScore / n
IsVerified(totalScore, n) ==
    IF n = 0 \/ totalScore = NaN THEN FALSE ELSE totalScore >= passingThreshold * n

MeanTruncated(totalScore, n) ==
    IF n = 0 \/ totalScore = NaN THEN NaN ELSE totalScore \div n

\* Math.round(totalScore / n); NaN for 0 / 0 and for a NaN total
MeanRounded(totalScore, n) ==
    IF n = 0 \/ totalScore = NaN THEN NaN ELSE RoundDiv(totalScore, n)

\* The object evaluateAllAnswers returns once the loop is over
Aggregate(evaluations, totalScore, n) ==
    [is_verified |-> IsVerified(totalScore, n),
     average_score |-> MeanRounded(totalScore, n),
     total_score |-> totalScore,
     passing_threshold |-> passingThreshold,
     individual_evaluations |-> evaluations,
     summary |-> [passed_questions |->
                      Cardinality({i \in 1..Len(evaluations) :
                                      evaluations[i].evaluation.passed}),
                  total_questions |-> Len(evaluations),
                  status |-> IF IsVerified(totalScore, n)
                             THEN "VERIFIED" ELSE "NOT_VERIFIED"]]

----------------------------------------------------------------------------
(* POST /api/answers/evaluate and GET /api/answers/evaluation/:sessionId *)

\* One element of detailed_results in the evaluate response
DetailedResult(e) ==
    [question_id |-> e.question_id, skill |-> e.skill,
     score |-> e.evaluation.score, verdict |-> e.evaluation.verdict,
     feedback |-> e.evaluation.feedback]

EvaluateBody(result) ==
    [success |-> TRUE,
     verification_status |-> result.summary.status,
     is_verified |-> result.is_verified,
     average_score |-> result.average_score,
     passing_threshold |-> result.passing_threshold,
     summary |-> result.summary,
     detailed_results |-> SeqMap(DetailedResult, result.individual_evaluations)]

\* evaluationCache.set(sessionId, evaluationResult)
MapSet(cache, sessionId, result) ==
    [s \in DOMAIN cache \cup {sessionId} |->
        IF s = sessionId THEN result ELSE cache[s]]

CacheAlways(cache, body, result) == MapSet(cache, "s1", result)

\* if (sessionId) evaluationCache.set(sessionId, evaluationResult)
CacheSet(cache, body, result) ==
    IF "sessionId" \in DOMAIN body
    THEN MapSet(cache, body.sessionId, result) ELSE cache

Idle == [pc |-> "idle"]

\* The request while the loop of evaluateAllAnswers runs; calls are the
\* EvaluationOracle calls made so far
Evaluating(body, evaluations, totalScore, calls) ==
    [pc |-> "evaluating", body |-> body, evaluations |-> evaluations,
     totalScore |-> totalScore, calls |-> calls]

\* evaluateAllAnswers returns; the route caches the result and responds
Finish(body, evaluations, totalScore, calls) ==
    LET result == Aggregate(evaluations, totalScore, Len(body.questions))
    IN  /\ evaluationCache' = CacheSet(evaluationCache, body, result)
        /\ serverVerified' = (serverVerified \/ result.is_verified)
        /\ ev' = Idle
        /\ out' = Reply("evaluate", body, 200, EvaluateBody(result), calls)

Reject(body, status, msg, calls) ==
    /\ ev' = Idle
    /\ out' = Reply("evaluate", body, status, ErrorBody(msg), calls)
    /\ UNCHANGED <<evaluationCache, serverVerified>>

ShapeUnchecked(questions, answers) == FALSE

\* questions.length !== answers.length
ShapeMismatch(questions, answers) == Len(questions) # Len(answers)

\* POST /evaluate up to the first await
EvaluateRequest(body) ==
    /\ ev.pc = "idle"
    /\ gen.pc = "idle"
    /\ IF "questions" \notin DOMAIN body
       THEN Reject(body, 400, "questions array is required", <<>>)
       ELSE IF "answers" \notin DOMAIN body
       THEN Reject(body, 400, "answers array is required", <<>>)
       ELSE IF ShapeMismatch(body.questions, body.answers)
       THEN Reject(body, 400, "Number of questions must match number of answers", <<>>)
       ELSE IF ~geminiApiKey
       THEN Reject(body, 500, "GEMINI_API_KEY not configured", <<>>)
       ELSE IF Len(body.questions) = 0
       THEN Finish(body, <<>>, 0, <<>>)
       ELSE /\ ev' = Evaluating(body, <<>>, 0, <<>>)
            /\ out' = NoOut
            /\ UNCHANGED <<evaluationCache, serverVerified>>
    /\ UNCHANGED <<geminiApiKey, gen, jobVars, apply>>

\* What the loop hands to evaluateAnswer for question q, and how the call ended
OracleCall(q, a, outcome) ==
    [outcome |-> outcome, question |-> Field(q, "question"), answer |-> a,
     correct_answer |-> Field(q, "correct_answer"),
     keywords |-> Field(q, "keywords")]

\* Index of the pair the loop is at
Cursor == Len(ev.evaluations) + 1

ContinuePrepending(q, a, evaluation, calls) ==
    LET evaluations == <<IndividualEvaluation(q, a, evaluation)>> \o ev.evaluations
        totalScore == JsAdd(ev.totalScore, evaluation.score)
    IN  IF Len(evaluations) = Len(ev.body.questions)
        THEN Finish(ev.body, evaluations, totalScore, calls)
        ELSE /\ ev' = Evaluating(ev.body, evaluations, totalScore, calls)
             /\ out' = NoOut
             /\ UNCHANGED <<evaluationCache, serverVerified>>

\* The loop body after evaluateAnswer returned evaluation for the pair (q, a)
Continue(q, a, evaluation, calls) ==
    LET evaluations == Append(ev.evaluations, IndividualEvaluation(q, a, evaluation))
        totalScore == JsAdd(ev.totalScore, evaluation.score)
    IN  IF Len(evaluations) = Len(ev.body.questions)
        THEN Finish(ev.body, evaluations, totalScore, calls)
        ELSE /\ ev' = Evaluating(ev.body, evaluations, totalScore, calls)
             /\ out' = NoOut
             /\ UNCHANGED <<evaluationCache, serverVerified>>

\* The awaited oracle call of the loop returns a parsed response
OracleReturns(reply) ==
    /\ ev.pc = "evaluating"
    /\ LET q == ev.body.questions[Cursor]
           a == At(ev.body.answers, Cursor)
       IN  Continue(q, a, evaluateAnswer(reply), Append(ev.calls, OracleCall(q, a, "ok")))
    /\ UNCHANGED <<geminiApiKey, gen, jobVars, apply>>

OracleFailureSkipped(q, a) ==
    Continue(q, a, evaluateAnswer(OracleReply(0, 0, 0, 0, 0, "fail")),
             Append(ev.calls, OracleCall(q, a, "failed")))

\* evaluateAnswer rethrows; evaluateAllAnswers has no catch; the route answers 500
OracleFailure(q, a) ==
    Reject(ev.body, 500, "Failed to evaluate answer",
           Append(ev.calls, OracleCall(q, a, "failed")))

\* The awaited oracle call throws (network error, unparsable response)
OracleFails ==
    /\ ev.pc = "evaluating"
    /\ OracleFailure(ev.body.questions[Cursor], At(ev.body.answers, Cursor))
    /\ UNCHANGED <<geminiApiKey, gen, jobVars, apply>>

\* GET /evaluation/:sessionId
GetEvaluation(sessionId) ==
    /\ ev.pc = "idle"
    /\ gen.pc = "idle"
    /\ out' = IF sessionId \notin DOMAIN evaluationCache
              THEN Reply("getEvaluation", sessionId, 404,
                         ErrorBody("Evaluation result not found"), <<>>)
              ELSE Reply("getEvaluation", sessionId, 200,
                         [success |-> TRUE, evaluation |-> evaluationCache[sessionId]],
                         <<>>)
    /\ UNCHANGED <<evalVars, jobVars, apply>>

----------------------------------------------------------------------------
(* Strings of RAGService: a skill name or a CSV field is a sequence of     *)
(* one-character strings                                                   *)

LowerChar(c) ==
    CASE c = "J" -> "j" [] c = "S" -> "s" [] c = "Q" -> "q" [] c = "L" -> "l"
      [] c = "G" -> "g" [] c = "C" -> "c" [] c = "R" -> "r" [] OTHER -> c

\* String.prototype.toLowerCase
toLowerCase(s) == [i \in 1..Len(s) |-> LowerChar(s[i])]

\* s.includes(t): t occurs in s as a contiguous run
includes(s, t) == \E i \in 0..(Len(s) - Len(t)) : SubSeq(s, i + 1, i + Len(t)) = t

\* s.split(',')
RECURSIVE split(_)
split(s) ==
    IF \A i \in 1..Len(s) : s[i] # ","
    THEN <<s>>
    ELSE LET k == CHOOSE i \in 1..Len(s) :
                     s[i] = "," /\ \A j \in 1..(i - 1) : s[j] # ","
         IN  <<SubSeq(s, 1, k - 1)>> \o split(SubSeq(s, k + 1, Len(s)))

RECURSIVE trimStart(_)
trimStart(s) == IF s # <<>> /\ s[1] = " " THEN trimStart(Tail(s)) ELSE s

RECURSIVE trimEnd(_)
trimEnd(s) ==
    IF s # <<>> /\ s[Len(s)] = " " THEN trimEnd(SubSeq(s, 1, Len(s) - 1)) ELSE s

\* String.prototype.trim
trim(s) == trimEnd(trimStart(s))

NonEmpty(s) == Len(s) > 0

\* RAGService._parseSkills
parseSkills(skillsString) ==
    IF skillsString = <<>> THEN <<>>
    ELSE SelectSeq(SeqMap(trim, split(skillsString)), NonEmpty)

----------------------------------------------------------------------------
(* The CSV sources *)

\* row.f || '' for the text columns
Column(row, f) == IF f \in DOMAIN row THEN row[f] ELSE ""

\* row.required_skills; a missing column reads as the empty string
SkillsColumn(row) == IF "required_skills" \in DOMAIN row THEN row.required_skills ELSE <<>>

\* jobsdata.csv: "JS, SQL" / "Java,,Go " / a row without a skills column
JobsData ==
    << [company_name |-> "Acme", job_role |-> "Frontend", company_email |-> "hr@acme",
        required_skills |-> <<"J", "S", ",", " ", "S", "Q", "L">>],
       [company_name |-> "Beta", job_role |-> "Backend", company_email |-> "hr@beta",
        required_skills |-> <<"J", "a", "v", "a", ",", ",", "G", "o", " ">>],
       [company_name |-> "Gamma", job_role |-> "Intern", company_email |-> "hr@gamma"] >>

\* other.csv: "js,Go,R" / "Go,SQL,Java,C,R"
OtherData ==
    << [company_name |-> "Delta", job_role |-> "Fullstack", company_email |-> "hr@delta",
        required_skills |-> <<"j", "s", ",", "G", "o", ",", "R">>],
       [company_name |-> "Epsilon", job_role |-> "Data", company_email |-> "hr@epsilon",
        required_skills |-> <<"G", "o", ",", "S", "Q", "L", ",", "J", "a", "v", "a",
                              ",", "C", ",", "R">>] >>

\* The paths for which fs.existsSync is true
Files == {"jobsdata.csv", "other.csv"}

Rows(csvPath) == IF csvPath = "jobsdata.csv" THEN JobsData ELSE OtherData

----------------------------------------------------------------------------
(* RAGService.loadJobsData and POST /api/jobs/load-data *)

\* The job object the 'data' handler builds from a row
Job(id, row) ==
    [id |-> id,
     company_name |-> Column(row, "company_name"),
     job_role |-> Column(row, "job_role"),
     required_skills |-> parseSkills(SkillsColumn(row)),
     company_email |-> Column(row, "company_email"),
     job_description |-> Column(row, "job_description"),
     location |-> Column(row, "location"),
     salary_range |-> Column(row, "salary_range")]

\* The catalog a complete read of csvPath into an empty catalog gives
CatalogOf(csvPath) == [i \in 1..Len(Rows(csvPath)) |-> Job(i, Rows(csvPath)[i])]

LoadIdle == [pc |-> "idle"]

\* A stream being read: pos rows were delivered; before is the catalog as it
\* was when the load was requested
Streaming(body, pos, before) ==
    [pc |-> "streaming", body |-> body, pos |-> pos, before |-> before]

KeepCatalog(before) == before

\* this.jobs = [] at the start of loadJobsData
ClearCatalog(before) == <<>>

\* POST /load-data and the synchronous start of loadJobsData
LoadRequest(body) ==
    /\ load.pc = "idle"
    /\ IF "csvPath" \notin DOMAIN body
       THEN /\ out' = Reply("load", body, 400, ErrorBody("csvPath is required"), <<>>)
            /\ UNCHANGED <<jobs, jobIndex, load>>
       ELSE /\ jobs' = ClearCatalog(jobs)
            /\ jobIndex' = <<>>
            /\ IF body.csvPath \notin Files
               THEN /\ out' = Reply("load", body, 500,
                                    ErrorBody("Jobs CSV file not found"), <<>>)
                    /\ load' = load
               ELSE /\ out' = NoOut
                    /\ load' = Streaming(body, 0, jobs)
    /\ UNCHANGED <<evalVars, overlap, apply>>

\* The 'data' event of the stream: one row becomes one job
LoadData ==
    /\ load.pc = "streaming"
    /\ load.pos < Len(Rows(load.body.csvPath))
    /\ LET job == Job(Len(jobs) + 1, Rows(load.body.csvPath)[load.pos + 1])
       IN  /\ jobs' = Append(jobs, job)
           /\ jobIndex' = MapSet(jobIndex, job.id, job)
    /\ load' = Streaming(load.body, load.pos + 1, load.before)
    /\ out' = NoOut
    /\ UNCHANGED <<evalVars, overlap, apply>>

\* The 'end' event: loadJobsData resolves and the route responds
LoadEnd ==
    /\ load.pc = "streaming"
    /\ load.pos = Len(Rows(load.body.csvPath))
    /\ load' = LoadIdle
    /\ out' = Reply("load", load.body, 200,
                    [success |-> TRUE, jobs_count |-> Len(jobs)], <<>>)
    /\ UNCHANGED <<evalVars, jobs, jobIndex, overlap, apply>>

\* The 'error' event: the source became unreadable
LoadError ==
    /\ load.pc = "streaming"
    /\ load' = LoadIdle
    /\ out' = Reply("load", load.body, 500, ErrorBody("Failed to load jobs CSV"), <<>>)
    /\ UNCHANGED <<evalVars, jobs, jobIndex, overlap, apply>>

\* A second POST /load-data arrives while a stream is being read: the same
\* handler and the same loadJobsData run for it on the same RAGService
OverlapRequest(body) ==
    /\ load.pc = "streaming"
    /\ overlap.pc = "idle"
    /\ IF "csvPath" \notin DOMAIN body
       THEN /\ out' = Reply("load", body, 400, ErrorBody("csvPath is required"), <<>>)
            /\ UNCHANGED <<jobs, jobIndex, overlap>>
       ELSE /\ jobs' = ClearCatalog(jobs)
            /\ jobIndex' = <<>>
            /\ IF body.csvPath \notin Files
               THEN /\ out' = Reply("load", body, 500,
                                    ErrorBody("Jobs CSV file not found"), <<>>)
                    /\ overlap' = overlap
               ELSE /\ out' = NoOut
                    /\ overlap' = Streaming(body, 0, jobs)
    /\ UNCHANGED <<evalVars, load, apply>>

\* The 'data' event of the second stream
OverlapData ==
    /\ overlap.pc = "streaming"
    /\ overlap.pos < Len(Rows(overlap.body.csvPath))
    /\ LET job == Job(Len(jobs) + 1, Rows(overlap.body.csvPath)[overlap.pos + 1])
       IN  /\ jobs' = Append(jobs, job)
           /\ jobIndex' = MapSet(jobIndex, job.id, job)
    /\ overlap' = Streaming(overlap.body, overlap.pos + 1, overlap.before)
    /\ out' = NoOut
    /\ UNCHANGED <<evalVars, load, apply>>

\* The 'end' event of the second stream
OverlapEnd ==
    /\ overlap.pc = "streaming"
    /\ overlap.pos = Len(Rows(overlap.body.csvPath))
    /\ overlap' = LoadIdle
    /\ out' = Reply("load", overlap.body, 200,
                    [success |-> TRUE, jobs_count |-> Len(jobs)], <<>>)
    /\ UNCHANGED <<evalVars, jobs, jobIndex, load, apply>>

----------------------------------------------------------------------------
(* RAGService.retrieveMatchingJobs and POST /api/jobs/match *)

SkillMatchesOneWay(skillsLower, reqLower) ==
    \E i \in 1..Len(skillsLower) : includes(skillsLower[i], reqLower)

\* Some candidate skill contains the required skill or is contained in it
SkillMatches(skillsLower, reqLower) ==
    \E i \in 1..Len(skillsLower) :
        includes(skillsLower[i], reqLower) \/ includes(reqLower, skillsLower[i])

\* _calculateMatchScore, as the fraction num / den (den > 0)
calculateMatchScore(candidateSkills, job) ==
    IF Len(job.required_skills) = 0
    THEN [num |-> 0, den |-> 1]
    ELSE LET skillsLower == SeqMap(toLowerCase, candidateSkills)
             requiredLower == SeqMap(toLowerCase, job.required_skills)
             matches == Cardinality({i \in 1..Len(requiredLower) :
                                        SkillMatches(skillsLower, requiredLower[i])})
         IN  [num |-> matches * 100, den |-> Len(requiredLower)]

findMatchedSkillsLower(candidateSkills, job) ==
    LET skillsLower == SeqMap(toLowerCase, candidateSkills)
        Matched(reqSkill) == SkillMatches(skillsLower, reqSkill)
    IN  SelectSeq(SeqMap(toLowerCase, job.required_skills), Matched)

\* _findMatchedSkills
findMatchedSkills(candidateSkills, job) ==
    LET skillsLower == SeqMap(toLowerCase, candidateSkills)
        Matched(reqSkill) == SkillMatches(skillsLower, toLowerCase(reqSkill))
    IN  SelectSeq(job.required_skills, Matched)

ScoreLess(a, b) == a.num * b.den < b.num * a.den

RECURSIVE InsertBeforeTies(_, _)
InsertBeforeTies(sorted, m) ==
    IF sorted = <<>> THEN <<m>>
    ELSE IF ~ScoreLess(m.match_score, Head(sorted).match_score)
    THEN <<m>> \o sorted
    ELSE <<Head(sorted)>> \o InsertBeforeTies(Tail(sorted), m)

\* Place m behind every entry whose score is not lower than its own
RECURSIVE InsertByScore(_, _)
InsertByScore(sorted, m) ==
    IF sorted = <<>> THEN <<m>>
    ELSE IF ScoreLess(Head(sorted).match_score, m.match_score)
    THEN <<m>> \o sorted
    ELSE <<Head(sorted)>> \o InsertByScore(Tail(sorted), m)

\* matches.sort((a, b) => b.match_score - a.match_score): descending, stable
RECURSIVE sortByScore(_)
sortByScore(matches) ==
    IF matches = <<>> THEN <<>>
    ELSE InsertByScore(sortByScore(SubSeq(matches, 1, Len(matches) - 1)),
                       matches[Len(matches)])

minMatchScore == 40

AnyScore(m) == TRUE

\* m.match_score >= 40
Eligible(m) == m.match_score.num >= minMatchScore * m.match_score.den

\* array.slice(0, k) for an integer k
Slice(array, k) ==
    SubSeq(array, 1, IF k < 0 THEN Max(Len(array) + k, 0) ELSE Min(k, Len(array)))

\* The element of matched_jobs made of a match
MatchedJob(m) ==
    [id |-> m.job.id, company_name |-> m.job.company_name,
     job_role |-> m.job.job_role, company_email |-> m.job.company_email,
     location |-> m.job.location, salary_range |-> m.job.salary_range,
     required_skills |-> m.job.required_skills,
     match_score |-> RoundDiv(m.match_score.num, m.match_score.den),
     matched_skills |-> m.matched_skills,
     application_status |-> "pending"]

GateOpen(evaluationResult) == FALSE

\* !evaluationResult.is_verified
NotVerified(evaluationResult) ==
    ~("is_verified" \in DOMAIN evaluationResult /\ evaluationResult.is_verified)

defaultTopK == 5

retrieveMatchingJobsUnchecked(candidateSkills, evaluationResult, topK) ==
    IF NotVerified(evaluationResult)
    THEN [matched_jobs |-> <<>>,
          message |-> "Candidate not verified. No job applications sent.",
          reason |-> "verification_failed"]
    ELSE LET matches == [i \in 1..Len(jobs) |->
                            [job |-> jobs[i],
                             match_score |-> calculateMatchScore(candidateSkills, jobs[i]),
                             matched_skills |-> findMatchedSkills(candidateSkills, jobs[i])]]
             filteredMatches == SelectSeq(sortByScore(matches), Eligible)
         IN  [matched_jobs |-> SeqMap(MatchedJob, Slice(filteredMatches, topK)),
              total_matches |-> Len(filteredMatches),
              candidate_score |-> Field(evaluationResult, "average_score"),
              verification_status |-> "VERIFIED"]

\* retrieveMatchingJobs on the catalog as it is now; [error |-> ...] when it throws
retrieveMatchingJobs(candidateSkills, evaluationResult, topK) ==
    IF Len(jobs) = 0
    THEN [error |-> "No jobs loaded. Call loadJobsData first."]
    ELSE IF NotVerified(evaluationResult)
    THEN [matched_jobs |-> <<>>,
          message |-> "Candidate not verified. No job applications sent.",
          reason |-> "verification_failed"]
    ELSE LET matches == [i \in 1..Len(jobs) |->
                            [job |-> jobs[i],
                             match_score |-> calculateMatchScore(candidateSkills, jobs[i]),
                             matched_skills |-> findMatchedSkills(candidateSkills, jobs[i])]]
             filteredMatches == SelectSeq(sortByScore(matches), Eligible)
         IN  [matched_jobs |-> SeqMap(MatchedJob, Slice(filteredMatches, topK)),
              total_matches |-> Len(filteredMatches),
              candidate_score |-> Field(evaluationResult, "average_score"),
              verification_status |-> "VERIFIED"]

\* POST /match
MatchRequest(body) ==
    /\ out' =
         IF "candidateSkills" \notin DOMAIN body
         THEN Reply("match", body, 400, ErrorBody("candidateSkills array is required"), <<>>)
         ELSE IF "evaluationResult" \notin DOMAIN body
         THEN Reply("match", body, 400, ErrorBody("evaluationResult is required"), <<>>)
         ELSE LET matchResult ==
                      retrieveMatchingJobs(body.candidateSkills, body.evaluationResult,
                                           IF "topK" \in DOMAIN body
                                           THEN body.topK ELSE defaultTopK)
              IN  IF "error" \in DOMAIN matchResult
                  THEN Reply("match", body, 500, ErrorBody(matchResult.error), <<>>)
                  ELSE Reply("match", body, 200,
                             [f \in DOMAIN matchResult \cup {"success"} |->
                                 IF f = "success" THEN TRUE ELSE matchResult[f]],
                             <<>>)
    /\ UNCHANGED <<evalVars, jobVars, apply>>

----------------------------------------------------------------------------
(* EmailService and POST /api/jobs/apply *)

ApplyIdle == [pc |-> "idle"]

\* The request while EmailService works: results are the records pushed by
\* sendBatchApplications, sends the jobs sendApplicationEmail was called for
Applying(pc, body, results, sends) ==
    [pc |-> pc, body |-> body, results |-> results, sends |-> sends]

\* generateResumePDF throws inside its try block (the spread of a technical
\* skills value that is not iterable) and rejects
PdfThrows(resume) ==
    "skills" \in DOMAIN resume /\ resume.skills.technical = "number"

\* POST /apply up to the await of generateResumePDF
ApplyRequest(body) ==
    /\ apply.pc = "idle"
    /\ IF "resume" \notin DOMAIN body
       THEN /\ out' = Reply("apply", body, 400, ErrorBody("resume object is required"), <<>>)
            /\ apply' = apply
       ELSE IF "matchedJobs" \notin DOMAIN body \/ Len(body.matchedJobs) = 0
       THEN /\ out' = Reply("apply", body, 400,
                            ErrorBody("matchedJobs array is required and must not be empty"),
                            <<>>)
            /\ apply' = apply
       ELSE IF "candidateInfo" \notin DOMAIN body
       THEN /\ out' = Reply("apply", body, 400, ErrorBody("candidateInfo is required"), <<>>)
            /\ apply' = apply
       ELSE IF "smtpConfig" \notin DOMAIN body
       THEN /\ out' = Reply("apply", body, 400, ErrorBody("smtpConfig is required"), <<>>)
            /\ apply' = apply
       ELSE IF PdfThrows(body.resume)
       THEN /\ out' = Reply("apply", body, 500, ErrorBody("not iterable"), <<>>)
            /\ apply' = apply
       ELSE /\ out' = NoOut
            /\ apply' = Applying("pdf", body, <<>>, <<>>)
    /\ UNCHANGED <<evalVars, jobVars>>

SendToWithNext(job, results, sends) ==
    apply' = Applying("sending", apply.body, results,
                      Append(Append(sends, [job |-> job, outcome |-> "pending"]),
                             [job |-> job, outcome |-> "pending"]))

\* The loop of sendBatchApplications calls sendApplicationEmail for job;
\* sends records the call and, once it is over, how it ended
SendTo(job, results, sends) ==
    apply' = Applying("sending", apply.body, results,
                      Append(sends, [job |-> job, outcome |-> "pending"]))

\* generateResumePDF resolves: sendBatchApplications starts with the first job
PdfGenerated ==
    /\ apply.pc = "pdf"
    /\ SendTo(apply.body.matchedJobs[1], <<>>, <<>>)
    /\ out' = NoOut
    /\ UNCHANGED <<evalVars, jobVars>>

\* The record pushed for job: by the try block when sendApplicationEmail
\* returned, by the catch block when it threw
ApplicationRecord(job, outcome) ==
    IF outcome = "returned"
    THEN [company |-> Field(job, "company_name"), jobRole |-> Field(job, "job_role"),
          email |-> Field(job, "company_email"), status |-> "sent",
          timestamp |-> "timestamp"]
    ELSE [company |-> Field(job, "company_name"), jobRole |-> Field(job, "job_role"),
          email |-> Field(job, "company_email"), status |-> "failed",
          error |-> "Failed to send email"]

\* sendApplicationEmail returns or throws; the record is pushed and the
\* one-second delay starts
SendReturns(outcome) ==
    /\ apply.pc = "sending"
    /\ apply' = Applying("delay", apply.body,
                         Append(apply.results,
                                ApplicationRecord(Last(apply.sends).job, outcome)),
                         [apply.sends EXCEPT ![Len(apply.sends)].outcome = outcome])
    /\ out' = NoOut
    /\ UNCHANGED <<evalVars, jobVars>>

CountStatus(results, status) ==
    Cardinality({i \in 1..Len(results) : results[i].status = status})

\* The response of POST /apply once sendBatchApplications returned
ApplyBody(results) ==
    [success |-> TRUE,
     applications |-> results,
     summary |-> [total_sent |-> CountStatus(results, "sent"),
                  total_failed |-> CountStatus(results, "failed"),
                  companies_applied |-> [i \in 1..Len(results) |-> results[i].company]]]

LoopStopsOnFailure(results, matchedJobs) ==
    /\ Len(results) < Len(matchedJobs)
    /\ \A i \in 1..Len(results) : results[i].status = "sent"

\* for (const job of matchedJobs): another job is left after the ones done
LoopContinues(results, matchedJobs) == Len(results) < Len(matchedJobs)

\* The delay is over: the next job is sent to, or the batch is done
DelayElapsed ==
    /\ apply.pc = "delay"
    /\ IF LoopContinues(apply.results, apply.body.matchedJobs)
       THEN /\ SendTo(apply.body.matchedJobs[Len(apply.results) + 1],
                      apply.results, apply.sends)
            /\ out' = NoOut
       ELSE /\ apply' = ApplyIdle
            /\ out' = Reply("apply", apply.body, 200, ApplyBody(apply.results),
                            apply.sends)
    /\ UNCHANGED <<evalVars, jobVars>>

----------------------------------------------------------------------------
(* ResumeService and the routes /api/resume/load and /api/resume/analyze.  *)
(* Skill names and texts are sequences of one-character strings.           *)

\* The technology names of commonTechs the model keeps, in their order
commonTechs == << <<"J", "a", "v", "a">>, <<"G", "o">>, <<"S", "Q", "L">> >>

\* lines.join(' ')
RECURSIVE join(_)
join(lines) ==
    IF lines = <<>> THEN <<>>
    ELSE IF Len(lines) = 1 THEN lines[1]
    ELSE lines[1] \o <<" ">> \o join(Tail(lines))

\* _extractSkillsFromText: the names of commonTechs the text contains,
\* compared in lower case, in the order of commonTechs
extractSkillsFromText(text) ==
    LET Found(tech) == includes(toLowerCase(text), toLowerCase(tech))
    IN  SelectSeq(commonTechs, Found)

\* Concatenation of the arrays of a sequence of arrays
RECURSIVE Flatten(_)
Flatten(arrays) ==
    IF arrays = <<>> THEN <<>> ELSE Head(arrays) \o Flatten(Tail(arrays))

\* What the forEach over resume.experience pushes
ExperienceSkills(resume) ==
    IF "experience" \notin DOMAIN resume THEN <<>>
    ELSE LET Mined(exp) ==
                 IF "description" \in DOMAIN exp
                 THEN extractSkillsFromText(join(exp.description)) ELSE <<>>
         IN  Flatten(SeqMap(Mined, resume.experience))

\* What the forEach over resume.projects pushes
ProjectSkills(resume) ==
    IF "projects" \notin DOMAIN resume THEN <<>>
    ELSE LET Techs(project) ==
                 IF "technologies" \in DOMAIN project THEN project.technologies ELSE <<>>
         IN  Flatten(SeqMap(Techs, resume.projects))

\* resume.skills.<list>, [] when the profile does not declare it
Declared(resume, list) ==
    IF "skills" \in DOMAIN resume /\ list \in DOMAIN resume.skills
    THEN resume.skills[list] ELSE <<>>

UniqueIgnoringCase(array) ==
    LET FirstSeen(i) == \A j \in 1..(i - 1) : toLowerCase(array[j]) # toLowerCase(array[i])
        keep[k \in 0..Len(array)] ==
            IF k = 0 THEN <<>>
            ELSE IF FirstSeen(k) THEN Append(keep[k - 1], array[k])
            ELSE keep[k - 1]
    IN  keep[Len(array)]

\* [...new Set(array)]: the first occurrence of every element, in order
Unique(array) ==
    LET FirstSeen(i) == \A j \in 1..(i - 1) : array[j] # array[i]
        keep[k \in 0..Len(array)] ==
            IF k = 0 THEN <<>>
            ELSE IF FirstSeen(k) THEN Append(keep[k - 1], array[k])
            ELSE keep[k - 1]
    IN  keep[Len(array)]

\* s && s.trim()
NotBlank(s) == Len(s) > 0 /\ Len(trim(s)) > 0

\* skills.technical when the pushes are over: the declared array, then the
\* skills mined from experience, then the project technologies
TechnicalPushed(resume) ==
    Declared(resume, "technical") \o ExperienceSkills(resume) \o ProjectSkills(resume)

\* ResumeService.extractSkills
extractSkills(resume) ==
    LET technical == SelectSeq(Unique(TechnicalPushed(resume)), NotBlank)
        soft == SelectSeq(Unique(Declared(resume, "soft")), NotBlank)
        languages == SelectSeq(Unique(Declared(resume, "languages")), NotBlank)
    IN  [technical |-> technical, soft |-> soft, languages |-> languages,
         all |-> technical \o soft \o languages]

Untouched(resume) == resume

\* The profile object once extractSkills has run: skills.technical of the
\* result is the array resume.skills.technical itself while the pushes are
\* made, so a declared technical array receives them
AfterExtractSkills(resume) ==
    IF "skills" \in DOMAIN resume /\ "technical" \in DOMAIN resume.skills
    THEN [resume EXCEPT !.skills.technical = TechnicalPushed(resume)]
    ELSE resume

\* ResumeService.extractExperienceLevel: length * 1.5 against 7 and 3
extractExperienceLevel(resume) ==
    IF "experience" \notin DOMAIN resume THEN "junior"
    ELSE IF Len(resume.experience) * 3 >= 14 THEN "senior"
    ELSE IF Len(resume.experience) * 3 >= 6 THEN "mid"
    ELSE "junior"

\* The role keywords of extractJobRoles the model keeps
roleKeywords == << <<"l", "e", "a", "d">> >>

\* ResumeService.extractJobRoles
extractJobRoles(resume) ==
    LET Title(exp) == IF "title" \in DOMAIN exp THEN toLowerCase(exp.title) ELSE <<>>
        titles == IF "experience" \in DOMAIN resume
                  THEN SelectSeq(SeqMap(Title, resume.experience), NonEmpty)
                  ELSE <<>>
        InSummary(keyword) == includes(toLowerCase(resume.summary), keyword)
        keywords == IF "summary" \in DOMAIN resume
                    THEN SelectSeq(roleKeywords, InSummary) ELSE <<>>
    IN  Unique(titles \o keywords)

\* ResumeService.extractCandidateInfo
extractCandidateInfo(resume) ==
    LET Info(f, default) ==
            IF "personal_info" \in DOMAIN resume /\ f \in DOMAIN resume.personal_info
            THEN resume.personal_info[f] ELSE default
    IN  [name |-> Info("name", "Unknown"), email |-> Info("email", ""),
         phone |-> Info("phone", ""), location |-> Info("location", ""),
         linkedin |-> Info("linkedin", ""), github |-> Info("github", "")]

validateResumeEither(resume) ==
    "personal_info" \in DOMAIN resume \/ "skills" \in DOMAIN resume

\* ResumeService.validateResume
validateResume(resume) ==
    "personal_info" \in DOMAIN resume /\ "skills" \in DOMAIN resume

\* The analysis both resume routes return
Analysis(resume) ==
    [candidate_info |-> extractCandidateInfo(resume),
     skills |-> extractSkills(resume),
     experience_level |-> extractExperienceLevel(resume),
     job_roles |-> extractJobRoles(resume)]

\* A completed exchange of a resume route; resume is the profile object the
\* handler worked on, as it is when the response is sent
ResumeReply(route, request, status, body, resume) ==
    [route |-> route, request |-> request, status |-> status, body |-> body,
     calls |-> <<>>, resume |-> resume]

\* The resume files on disk: the parsed content of each
ResumeFile(filePath) ==
    CASE filePath = "identity.json" -> [personal_info |-> [name |-> "Ann"]]
      [] filePath = "empty.json" -> <<>>
      [] OTHER ->
           [personal_info |-> [name |-> "Bob"],
            skills |-> [technical |-> << <<"G", "o">> >>],
            experience |-> << [description |-> << <<"S", "Q", "L">>, <<"g", "o">> >>] >>,
            projects |-> << [technologies |-> << <<"G", "o">> >>] >>]

\* The paths at which a file exists; broken.json does not hold JSON
ResumePaths == {"resume.json", "identity.json", "empty.json", "broken.json"}

\* POST /api/resume/load
LoadResumeRequest(body) ==
    /\ out' =
         IF "resumePath" \notin DOMAIN body
         THEN Reply("loadResume", body, 400, ErrorBody("resumePath is required"), <<>>)
         ELSE IF body.resumePath \notin ResumePaths
         THEN Reply("loadResume", body, 500,
                    ErrorBody("Failed to load resume: Resume file not found"), <<>>)
         ELSE IF body.resumePath = "broken.json"
         THEN Reply("loadResume", body, 500,
                    ErrorBody("Failed to load resume: Unexpected token"), <<>>)
         ELSE LET resume == ResumeFile(body.resumePath)
              IN  IF ~validateResume(resume)
                  THEN ResumeReply("loadResume", body, 400,
                                   ErrorBody("Invalid resume structure"), resume)
                  ELSE ResumeReply("loadResume", body, 200,
                                   [success |-> TRUE,
                                    resume |-> AfterExtractSkills(resume),
                                    analysis |-> Analysis(resume)],
                                   AfterExtractSkills(resume))
    /\ UNCHANGED <<evalVars, jobVars, apply>>

\* POST /api/resume/analyze
AnalyzeRequest(body) ==
    /\ out' =
         IF "resume" \notin DOMAIN body
         THEN Reply("analyze", body, 400, ErrorBody("resume object is required"), <<>>)
         ELSE IF ~validateResume(body.resume)
         THEN ResumeReply("analyze", body, 400, ErrorBody("Invalid resume structure"),
                          body.resume)
         ELSE ResumeReply("analyze", body, 200,
                          [success |-> TRUE, analysis |-> Analysis(body.resume)],
                          AfterExtractSkills(body.resume))
    /\ UNCHANGED <<evalVars, jobVars, apply>>

----------------------------------------------------------------------------
(* The requests of the model *)

\* A question as the frontend holds it (what /generate sent: no correct_answer)
StrippedQuestion(i) == questionsForUI(OracleQuestion(i))

\* A question object to which the client added a reference answer and keywords
ForgedQuestion(i) ==
    [id |-> i, skill |-> Tok("skill", i), question |-> Tok("question", i),
     difficulty |-> "medium", correct_answer |-> Tok("clientref", i),
     keywords |-> Tok("clientkeywords", i)]

QuestionLists(maxq) ==
    {[i \in 1..n |-> StrippedQuestion(i)] : n \in 0..maxq}
        \cup {[i \in 1..n |-> ForgedQuestion(i)] : n \in 1..maxq}

AnswerLists(maxq) == {[i \in 1..n |-> Tok("answer", i)] : n \in 0..maxq}

\* Bodies of POST /generate: no skills, an empty array, one skill
GenerateBodies ==
    {[experienceLevel |-> "mid"],
     [skills |-> <<>>, experienceLevel |-> "mid"],
     [skills |-> <<Tok("skill", 1)>>, experienceLevel |-> "mid"]}

\* Bodies of POST /evaluate: each of questions, answers, sessionId may be absent
EvaluateBodies(maxq, sessions) ==
    LET Q == QuestionLists(maxq)
        A == AnswerLists(maxq)
    IN  {[questions |-> q, answers |-> a, sessionId |-> s] :
            q \in Q, a \in A, s \in sessions}
        \cup {[questions |-> q, answers |-> a] : q \in Q, a \in A}
        \cup {[answers |-> a] : a \in A}
        \cup {[questions |-> q] : q \in Q}

InitEval ==
    /\ geminiApiKey \in BOOLEAN
    /\ ev = Idle
    /\ evaluationCache = <<>>
    /\ gen = GenIdle
    /\ serverVerified = FALSE
    /\ jobs = <<>>
    /\ jobIndex = <<>>
    /\ load = LoadIdle
    /\ overlap = LoadIdle
    /\ apply = ApplyIdle
    /\ out = NoOut

NextEval ==
    \/ \E body \in GenerateBodies : GenerateRequest(body)
    \/ \E n \in 0..MaxGen : QuestionOracleReturns(n)
    \/ QuestionOracleFails
    \/ \E body \in EvaluateBodies(MaxQ, Sessions) : EvaluateRequest(body)
    \/ \E reply \in OracleReplies : OracleReturns(reply)
    \/ OracleFails
    \/ \E sessionId \in Sessions : GetEvaluation(sessionId)

\* The skill lists candidates send: none, [js], [S, Gox], [Go, SQL],
\* [Java, Go, SQL]
CandidateSkillLists ==
    { <<>>, << <<"j", "s">> >>,
      << <<"S">>, <<"G", "o", "x">> >>,
      << <<"G", "o">>, <<"S", "Q", "L">> >>,
      << <<"J", "a", "v", "a">>, <<"G", "o">>, <<"S", "Q", "L">> >> }

\* The evaluationResult objects clients send with a match request
ClientEvaluationResults ==
    { [is_verified |-> TRUE, average_score |-> 85],
      [is_verified |-> FALSE, average_score |-> 40],
      [average_score |-> 85] }

\* Bodies of POST /match
MatchBodies ==
    {[candidateSkills |-> c, evaluationResult |-> e, topK |-> k] :
        c \in CandidateSkillLists, e \in ClientEvaluationResults, k \in -1..MaxTopK}
      \cup {[candidateSkills |-> c, evaluationResult |-> e] :
                c \in CandidateSkillLists, e \in ClientEvaluationResults}
      \cup {[candidateSkills |-> c] : c \in CandidateSkillLists}
      \cup {[evaluationResult |-> e] : e \in ClientEvaluationResults}

\* Bodies of POST /load-data: no path, the two sources, a path that does not exist
LoadBodies ==
    {[other |-> "x"]} \cup {[csvPath |-> p] : p \in Files \cup {"missing.csv"}}

\* The evaluate requests of the jobs specification: one question, one answer
FlowEvaluateBodies ==
    {[questions |-> <<StrippedQuestion(1)>>, answers |-> <<Tok("answer", 1)>>]}

FlowReplies == {r \in OracleReplies : r.score \in {69, 70}}

Init ==
    /\ InitEval
    /\ geminiApiKey

Next ==
    \/ \E body \in LoadBodies : LoadRequest(body)
    \/ LoadData
    \/ LoadEnd
    \/ LoadError
    \/ \E body \in MatchBodies : MatchRequest(body)
    \/ \E body \in FlowEvaluateBodies : EvaluateRequest(body)
    \/ \E reply \in FlowReplies : OracleReturns(reply)

\* The job objects clients send to POST /apply
ClientJobs ==
    { [company_name |-> "Acme", job_role |-> "Frontend", company_email |-> "hr@acme"],
      [company_name |-> "Beta", job_role |-> "Backend", company_email |-> "invalid"] }

RECURSIVE JobLists(_)
JobLists(n) ==
    IF n = 0 THEN {<<>>}
    ELSE JobLists(n - 1)
            \cup {Append(l, j) : l \in {x \in JobLists(n - 1) : Len(x) = n - 1},
                                 j \in ClientJobs}

GoodResume == [summary |-> "s", skills |-> [technical |-> "array"]]
BadResume == [summary |-> "s", skills |-> [technical |-> "number"]]

\* Bodies of POST /apply: complete ones, and ones that lack a required field
ApplyBodies ==
    {[resume |-> r, matchedJobs |-> l, candidateInfo |-> [name |-> "Ann"],
      smtpConfig |-> [service |-> "gmail"]] :
        r \in {GoodResume, BadResume}, l \in JobLists(MaxJobs)}
      \cup {[matchedJobs |-> <<>>], [resume |-> GoodResume]}
      \cup {[resume |-> GoodResume, matchedJobs |-> l] : l \in JobLists(1)}
      \cup {[resume |-> GoodResume, matchedJobs |-> l, candidateInfo |-> [name |-> "Ann"]] :
                l \in JobLists(1) \ {<<>>}}

NextApply ==
    \/ \E body \in ApplyBodies : ApplyRequest(body)
    \/ PdfGenerated
    \/ \E outcome \in {"returned", "threw"} : SendReturns(outcome)
    \/ DelayElapsed
    \/ \E body \in FlowEvaluateBodies : EvaluateRequest(body)
    \/ \E reply \in FlowReplies : OracleReturns(reply)

\* The number of questions of an interview
questionCount == 5

\* The evaluate requests of the scoring specification: the questions of an
\* interview with their answers, and a shorter list with a threshold of the
\* client's own
ScoreBodies ==
    {[questions |-> [i \in 1..questionCount |-> StrippedQuestion(i)],
      answers |-> [i \in 1..questionCount |-> Tok("answer", i)]],
     [questions |-> [i \in 1..2 |-> StrippedQuestion(i)],
      answers |-> [i \in 1..2 |-> Tok("answer", i)],
      passing_threshold |-> 50, passingThreshold |-> 50]}

\* The oracle responses of the scoring specification: scores below, inside
\* and above 0..100, a score that disagrees with its subscores (90), a
\* subscore above its range (75), and a response without a numeric score
ScoreReplies ==
    { OracleReply(-10, 0, 0, 0, 0, "fail"),
      OracleReply(60, 25, 15, 14, 6, "fail"),
      OracleReply(69, 28, 20, 14, 7, "fail"),
      OracleReply(70, 30, 20, 14, 6, "pass"),
      OracleReply(75, 50, 15, 5, 5, "pass"),
      OracleReply(80, 35, 25, 15, 5, "pass"),
      OracleReply(90, 30, 20, 14, 6, "pass"),
      OracleReply(130, 40, 30, 20, 10, "pass"),
      OracleReply(NaN, 30, 20, 14, 6, "pass") }

NextScore ==
    \/ \E body \in ScoreBodies : EvaluateRequest(body)
    \/ \E reply \in ScoreReplies : OracleReturns(reply)

\* The fields of b added to (or replacing those of) a
Merge(a, b) ==
    [f \in DOMAIN a \cup DOMAIN b |-> IF f \in DOMAIN b THEN b[f] ELSE a[f]]

\* Identity blocks of the profiles: none, one with a name, one without
PersonalInfos ==
    {<<>>,
     [personal_info |-> [name |-> "Ann", email |-> "ann@x"]],
     [personal_info |-> [phone |-> "555"]]}

\* Skills blocks: none, an empty object, an empty technical array, lists with
\* a repeated, a differently cased and a blank entry
SkillsBlocks ==
    {<<>>,
     [skills |-> <<>>],
     [skills |-> [technical |-> <<>>]],
     [skills |-> [technical |-> << <<"S", "Q", "L">> >>,
                  languages |-> << <<"e", "n">> >>]],
     [skills |-> [technical |-> << <<"J", "a", "v", "a">>, <<"j", "a", "v", "a">>,
                                  <<"J", "a", "v", "a">>, <<" ">>, <<"R">> >>,
                  soft |-> << <<"t", "a", "l", "k">>, <<"t", "a", "l", "k">> >>]]}

\* Experience: none, no entry, two entries ("java and SQL" / "Going"), five
Experiences ==
    {<<>>,
     [experience |-> <<>>],
     [experience |->
        << [title |-> <<"L", "e", "a", "d">>,
            description |-> << <<"j", "a", "v", "a", " ", "a", "n", "d", " ", "S", "Q", "L">>,
                               <<"G", "o", "i", "n", "g">> >>],
           [title |-> <<"l", "e", "a", "d">>] >>],
     [experience |-> [i \in 1..5 |-> [company |-> i]]]}

\* Projects and summary: none, or a project in Go and R, one without
\* technologies and the summary "lead"
ProjectBlocks ==
    {<<>>,
     [projects |-> << [technologies |-> << <<"G", "o">>, <<"R">> >>], [name |-> "x"] >>,
      summary |-> <<"l", "e", "a", "d">>]}

\* The candidate profiles of the model
Profiles ==
    {Merge(Merge(i, k), Merge(e, p)) :
        i \in PersonalInfos, k \in SkillsBlocks, e \in Experiences, p \in ProjectBlocks}

\* Bodies of POST /analyze
AnalyzeBodies == {[other |-> "x"]} \cup {[resume |-> r] : r \in Profiles}

\* Bodies of POST /load
LoadResumeBodies ==
    {[other |-> "x"]} \cup {[resumePath |-> p] : p \in ResumePaths \cup {"missing.json"}}

NextResume ==
    \/ \E body \in AnalyzeBodies : AnalyzeRequest(body)
    \/ \E body \in LoadResumeBodies : LoadResumeRequest(body)

\* The session ids of the cache specification
CacheSessions == {"s1", "s2"}

\* The evaluate requests of the cache specification: one pair, with either
\* session id or without one
CacheBodies ==
    {[questions |-> <<StrippedQuestion(1)>>, answers |-> <<Tok("answer", 1)>>,
      sessionId |-> s] : s \in CacheSessions}
      \cup FlowEvaluateBodies

NextCache ==
    \/ \E body \in CacheBodies : EvaluateRequest(body)
    \/ \E reply \in FlowReplies : OracleReturns(reply)
    \/ OracleFails
    \/ \E sessionId \in CacheSessions : GetEvaluation(sessionId)

NextLoads ==
    \/ \E body \in LoadBodies : LoadRequest(body)
    \/ LoadData
    \/ LoadEnd
    \/ \E body \in LoadBodies : OverlapRequest(body)
    \/ OverlapData
    \/ OverlapEnd

vars == <<geminiApiKey, ev, evaluationCache, gen, serverVerified, jobs, jobIndex, load,
         overlap, apply, out>>

SpecEval == InitEval /\ [][NextEval]_vars

Spec == Init /\ [][Next]_vars

SpecApply == Init /\ [][NextApply]_vars

SpecScore == Init /\ [][NextScore]_vars

SpecResume == Init /\ [][NextResume]_vars

SpecCache == Init /\ [][NextCache]_vars

SpecLoads == Init /\ [][NextLoads]_vars

----------------------------------------------------------------------------
(* Properties of the questions / answers routes, checked under SpecEval *)

EvaluateDone == out.route = "evaluate"
EvaluateOk == out.route = "evaluate" /\ out.status = 200

\* C2: in every aggregate evaluateAllAnswers returns, is_verified is true
\* exactly when the reported (rounded) average_score is >= passing_threshold.
C2_VerifiedIffReportedAverage ==
    EvaluateOk =>
        (out.body.is_verified
            <=> JsGE(out.body.average_score, out.body.passing_threshold))

\* Some oracle call of the exchange o threw
HasFailedCall(o) == \E i \in 1..Len(o.calls) : o.calls[i].outcome = "failed"

\* C8: when an EvaluationOracle call fails, the step that observes the
\* failure ends the request with an error: status 500 and no verdict in the
\* body, the failed call is the last call made (no retry, no later answer
\* evaluated), and the session cache is left as it was.
C8_OracleFailureAbortsBatch ==
    [][ (ev.pc = "evaluating" /\ ev'.pc = "idle" /\ HasFailedCall(out'))
            => /\ out'.status = 500
               /\ out'.body.success = FALSE
               /\ "is_verified" \notin DOMAIN out'.body
               /\ Len(out'.calls) = Len(ev.calls) + 1
               /\ \A i \in 1..Len(ev.calls) : out'.calls[i].outcome = "ok"
               /\ evaluationCache' = evaluationCache
               /\ serverVerified' = serverVerified ]_vars

\* C8 witness: the second oracle call of a request with a session id failed
\* while the cache already held an entry for that session.
C8_Witness ==
    /\ EvaluateDone
    /\ HasFailedCall(out)
    /\ Len(out.calls) >= 2
    /\ "sessionId" \in DOMAIN out.request
    /\ out.request.sessionId \in DOMAIN evaluationCache

HasBothArrays(body) == "questions" \in DOMAIN body /\ "answers" \in DOMAIN body

\* C9: a request whose questions and answers differ in length is answered
\* 400 with the shape-mismatch message, without any oracle call and without
\* a write to the cache.
C9_ShapeMismatchFailsFast ==
    [][ (out'.route = "evaluate" /\ HasBothArrays(out'.request)
            /\ Len(out'.request.questions) # Len(out'.request.answers))
            => /\ out'.status = 400
               /\ out'.body.error = "Number of questions must match number of answers"
               /\ out'.calls = <<>>
               /\ evaluationCache' = evaluationCache ]_vars

\* C9 witness: a mismatching request with questions to evaluate, on a server
\* whose oracle is configured, was rejected.
C9_Witness ==
    /\ EvaluateDone
    /\ geminiApiKey
    /\ HasBothArrays(out.request)
    /\ Len(out.request.questions) > Len(out.request.answers)
    /\ Len(out.request.answers) > 0
    /\ out.status = 400

\* Fields that hold text
TextFields == {"skill", "question", "user_answer", "feedback", "keywords", "correct_answer"}

\* The object r carries a reference answer: under its own name, or as the
\* value of one of its text fields
CarriesReference(r) ==
    \/ "correct_answer" \in DOMAIN r
    \/ \E f \in DOMAIN r \cap TextFields : r[f].tag \in {"ref", "clientref"}

C10_WitnessCached ==
    /\ out.route = "getEvaluation"
    /\ out.status = 200
    /\ Len(out.body.evaluation.individual_evaluations) > 0

----------------------------------------------------------------------------
(* Properties of the jobs routes, checked under Spec *)

\* The exchange just completed is a match request that passed the route's checks
WellFormedMatch ==
    /\ out.route = "match"
    /\ "candidateSkills" \in DOMAIN out.request
    /\ "evaluationResult" \in DOMAIN out.request

\* The response is the gate's: no jobs, reason verification_failed
GateResponse ==
    /\ out.status = 200
    /\ "reason" \in DOMAIN out.body
    /\ out.body.reason = "verification_failed"
    /\ out.body.matched_jobs = <<>>

\* The evaluationResult of the request just answered has is_verified false or
\* lacks the field
RequestUnverified ==
    \/ "is_verified" \notin DOMAIN out.request.evaluationResult
    \/ ~out.request.evaluationResult.is_verified

\* C1 as claimed: every match request whose is_verified is false gets the
\* empty result with reason verification_failed.
C1_UnverifiedAlwaysGated ==
    (WellFormedMatch
        /\ "is_verified" \in DOMAIN out.request.evaluationResult
        /\ ~out.request.evaluationResult.is_verified)
        => GateResponse

\* C1 amended: a match request with a skills array and an evaluationResult
\* whose is_verified is false or absent gets the gate's response when the
\* catalog holds a job and the "No jobs loaded" error (500) when it holds
\* none; either way the response carries no job, score or match count.
C1_UnverifiedGatedOrCatalogEmpty ==
    (WellFormedMatch /\ RequestUnverified)
        => /\ IF Len(jobs) = 0
              THEN /\ out.status = 500
                   /\ out.body.error = "No jobs loaded. Call loadJobsData first."
              ELSE GateResponse
           /\ "total_matches" \notin DOMAIN out.body
           /\ "candidate_score" \notin DOMAIN out.body
           /\ "matched_jobs" \in DOMAIN out.body => out.body.matched_jobs = <<>>

\* C1 witness: an unverified candidate whose skills match jobs of the loaded
\* catalog was turned away by the gate.
C1_Witness ==
    /\ WellFormedMatch
    /\ RequestUnverified
    /\ Len(out.request.candidateSkills) > 0
    /\ jobs = CatalogOf("jobsdata.csv")
    /\ GateResponse

\* Two evaluationResult objects that differ at most in is_verified
SameButFlag(e1, e2) == Field(e1, "average_score") = Field(e2, "average_score")

\* The gate turns the request away
Gated(candidateSkills, evaluationResult) ==
    "reason" \in DOMAIN retrieveMatchingJobs(candidateSkills, evaluationResult, defaultTopK)

\* C3: the gate's decision does not depend on the is_verified the client
\* sends, and match returns jobs only after an aggregation on the server
\* produced is_verified = true.
C3_GateUsesServerVerdict ==
    /\ \A c \in CandidateSkillLists, e1, e2 \in ClientEvaluationResults :
          SameButFlag(e1, e2) => (Gated(c, e1) <=> Gated(c, e2))
    /\ (out.route = "match" /\ out.status = 200
          /\ Len(out.body.matched_jobs) > 0) => serverVerified

\* The step ends a load request with the error status
LoadFailsNow == out'.route = "load" /\ out'.status = 500 /\ out' # out

\* The catalog as it was when the load that the step ends was requested
CatalogBefore == IF load.pc = "streaming" THEN load.before ELSE jobs

CompleteCatalogs == {CatalogOf(f) : f \in Files}

\* C5: a load that fails after a successful load of K jobs leaves those K
\* jobs in the catalog.
C5_FailedLoadKeepsCatalog ==
    [][ (LoadFailsNow /\ CatalogBefore \in CompleteCatalogs)
            => jobs' = CatalogBefore ]_vars

\* C6: a match served while a load is streaming sees the catalog as it was
\* before the load or as the finished load leaves it.
C6_MatchSeesWholeCatalog ==
    (WellFormedMatch /\ ~NotVerified(out.request.evaluationResult)
        /\ load.pc = "streaming")
        => (jobs = load.before \/ jobs = CatalogOf(load.body.csvPath))

\* The response lists matches (the gate was passed, nothing was thrown)
MatchesReturned ==
    out.route = "match" /\ out.status = 200 /\ "total_matches" \in DOMAIN out.body

\* C7: every job a match returns has a reported score of at least 40, and
\* at least 40% of its required skills are matched, whatever topK is.
C7_NoMatchBelowFloor ==
    MatchesReturned =>
        \A i \in 1..Len(out.body.matched_jobs) :
            LET m == out.body.matched_jobs[i]
            IN  /\ m.match_score >= 40
                /\ Len(m.required_skills) > 0
                /\ Len(m.matched_skills) * 100 >= 40 * Len(m.required_skills)

\* C7 witness: of two jobs the one scoring exactly 40 was returned and the
\* one scoring 33 was not.
C7_Witness ==
    /\ MatchesReturned
    /\ Len(jobs) = 2
    /\ out.body.total_matches = 1
    /\ Len(out.body.matched_jobs) = 1
    /\ out.body.matched_jobs[1].match_score = 40

\* a occurs in b as a contiguous run of characters
Within(a, b) ==
    \E from \in 1..(Len(b) + 1) :
        /\ from + Len(a) - 1 <= Len(b)
        /\ \A k \in 1..Len(a) : b[from + k - 1] = a[k]

\* The positions of the required skills of job that some candidate skill,
\* compared in lower case, contains or is contained in
MatchedPositions(candidateSkills, job) ==
    {k \in 1..Len(job.required_skills) :
        \E j \in 1..Len(candidateSkills) :
            LET c == toLowerCase(candidateSkills[j])
                r == toLowerCase(job.required_skills[k])
            IN  Within(c, r) \/ Within(r, c)}

\* C12: the score of every job of the catalog, for every candidate skill
\* list, is matched / required * 100 and 0 for a job without required skills;
\* every returned job reports that score rounded and has a required skill.
C12_ScoreIsMatchedFraction ==
    /\ \A c \in CandidateSkillLists : \A i \in 1..Len(jobs) :
          LET score == calculateMatchScore(c, jobs[i])
              required == Len(jobs[i].required_skills)
              matched == Cardinality(MatchedPositions(c, jobs[i]))
          IN  /\ score.den > 0
              /\ IF required = 0
                 THEN score.num = 0
                 ELSE score.num * required = matched * 100 * score.den
    /\ MatchesReturned =>
          \A i \in 1..Len(out.body.matched_jobs) :
              LET m == out.body.matched_jobs[i]
                  required == Len(m.required_skills)
                  matched == Cardinality(MatchedPositions(out.request.candidateSkills, m))
              IN  /\ required > 0
                  /\ m.match_score = RoundDiv(matched * 100, required)

\* C12 witness: [Go, SQL] against other.csv: the job matched in 1 of 3 skills
\* is left out, the job matched in 2 of 5 is returned.
C12_Witness ==
    /\ MatchesReturned
    /\ jobs = CatalogOf("other.csv")
    /\ Cardinality(MatchedPositions(out.request.candidateSkills, jobs[1])) = 1
    /\ Len(jobs[1].required_skills) = 3
    /\ Len(out.body.matched_jobs) = 1
    /\ out.body.matched_jobs[1].id = 2

\* Returned job a may stand before returned job b: its fraction of matched
\* skills is higher, or equal with the lower catalog id
RanksBefore(a, b) ==
    LET left == Len(a.matched_skills) * Len(b.required_skills)
        right == Len(b.matched_skills) * Len(a.required_skills)
    IN  left > right \/ (left = right /\ a.id < b.id)

\* The returned list is in descending score order, ties in catalog order
RankedStably ==
    MatchesReturned =>
        \A i, j \in 1..Len(out.body.matched_jobs) :
            i < j => RanksBefore(out.body.matched_jobs[i], out.body.matched_jobs[j])

\* C13: returned jobs are in descending score order with equal scores in
\* catalog order (ascending id), and a match repeated with the same request on
\* an unchanged catalog gets the same response.
C13_StableDescendingOrder ==
    /\ []RankedStably
    /\ [][ (out.route = "match" /\ out'.route = "match"
              /\ out'.request = out.request /\ jobs' = jobs)
              => out'.body = out.body ]_vars

\* C13 witness: two jobs with the same score were returned in catalog order
C13_Witness ==
    /\ MatchesReturned
    /\ Len(out.body.matched_jobs) = 2
    /\ out.body.matched_jobs[1].match_score = out.body.matched_jobs[2].match_score
    /\ out.body.matched_jobs[1].id = 1
    /\ out.body.matched_jobs[2].id = 2

\* The topK the request just answered asked for
RequestTopK == IF "topK" \in DOMAIN out.request THEN out.request.topK ELSE defaultTopK

\* The number of jobs of the catalog of which the candidate matches at least
\* 40% of the required skills
EligibleCount(candidateSkills) ==
    Cardinality({i \in 1..Len(jobs) :
        /\ Len(jobs[i].required_skills) > 0
        /\ Cardinality(MatchedPositions(candidateSkills, jobs[i])) * 100
              >= 40 * Len(jobs[i].required_skills)})

\* C14: a match that passed the gate returns min(topK, eligible) jobs (none
\* for a topK below 1) and reports the number of all eligible jobs as
\* total_matches.
C14_TopKBoundsReturnedList ==
    MatchesReturned =>
        LET eligible == EligibleCount(out.request.candidateSkills)
        IN  /\ out.body.total_matches = eligible
            /\ Len(out.body.matched_jobs) = Max(0, Min(RequestTopK, eligible))

\* The elements of array at the given positions, in the order of array
PickPositions(array, positions) ==
    LET pick[k \in 0..Len(array)] ==
            IF k = 0 THEN <<>>
            ELSE IF k \in positions THEN Append(pick[k - 1], array[k])
            ELSE pick[k - 1]
    IN  pick[Len(array)]

\* C15: the matched skills of a job are its required skills that pass the
\* containment test, in the job's order and casing, for every candidate list
\* and every job of the catalog; their number is the count behind the score,
\* and returned jobs carry that list.
C15_MatchedSkillsAreRequiredSubsequence ==
    /\ \A c \in CandidateSkillLists : \A i \in 1..Len(jobs) :
          LET matched == findMatchedSkills(c, jobs[i])
              score == calculateMatchScore(c, jobs[i])
              required == Len(jobs[i].required_skills)
          IN  /\ matched = PickPositions(jobs[i].required_skills,
                                         MatchedPositions(c, jobs[i]))
              /\ required > 0 => score.num * required = Len(matched) * 100 * score.den
    /\ MatchesReturned =>
          \A i \in 1..Len(out.body.matched_jobs) :
              LET m == out.body.matched_jobs[i]
              IN  /\ m.matched_skills
                        = PickPositions(m.required_skills,
                                        MatchedPositions(out.request.candidateSkills, m))
                  /\ m.match_score
                        = RoundDiv(Len(m.matched_skills) * 100, Len(m.required_skills))

\* C15 witness: candidate [js] got the job requiring "JS, SQL" back with the
\* matched skill in the job's casing
C15_Witness ==
    /\ MatchesReturned
    /\ out.request.candidateSkills = << <<"j", "s">> >>
    /\ Len(out.body.matched_jobs) > 0
    /\ out.body.matched_jobs[1].matched_skills = << <<"J", "S">> >>
    /\ out.body.matched_jobs[1].match_score = 50

\* C15 second case: every required skill matched, score 100
C15_WitnessAll ==
    /\ MatchesReturned
    /\ Len(out.body.matched_jobs) > 0
    /\ out.body.matched_jobs[1].match_score = 100
    /\ out.body.matched_jobs[1].matched_skills = out.body.matched_jobs[1].required_skills

\* The match just answered failed with the catalog-empty error
CatalogEmptyError ==
    /\ out.status = 500
    /\ "error" \in DOMAIN out.body
    /\ ~out.body.success
    /\ out.body.error = "No jobs loaded. Call loadJobsData first."

\* The match just answered succeeded without a single match
ZeroMatches ==
    /\ out.status = 200
    /\ out.body.success
    /\ "error" \notin DOMAIN out.body
    /\ "total_matches" \in DOMAIN out.body
    /\ out.body.matched_jobs = <<>>
    /\ out.body.total_matches = 0

\* C16: a match on a catalog of zero jobs fails with the catalog-empty error;
\* a match of a verified candidate on a catalog that holds jobs, none of them
\* eligible, succeeds with no jobs and total_matches 0.
C16_EmptyCatalogIsAnError ==
    WellFormedMatch =>
        /\ Len(jobs) = 0 <=> CatalogEmptyError
        /\ (Len(jobs) > 0 /\ ~RequestUnverified
              /\ EligibleCount(out.request.candidateSkills) = 0) => ZeroMatches

\* C16 witness: the catalog-empty error was returned to a verified candidate
C16_Witness ==
    /\ WellFormedMatch
    /\ ~RequestUnverified
    /\ Len(out.request.candidateSkills) > 0
    /\ CatalogEmptyError

\* C16 second case: a verified candidate with skills found no job in a loaded
\* catalog
C16_WitnessZeroMatches ==
    /\ WellFormedMatch
    /\ jobs = CatalogOf("other.csv")
    /\ Len(out.request.candidateSkills) > 0
    /\ ZeroMatches

\* The skills of the rows of the two sources, token by token:
\* "JS, SQL" / "Java,,Go " / no column and "js,Go,R" / "Go,SQL,Java,C,R"
ExpectedSkills(csvPath) ==
    IF csvPath = "jobsdata.csv"
    THEN << << <<"J", "S">>, <<"S", "Q", "L">> >>,
            << <<"J", "a", "v", "a">>, <<"G", "o">> >>,
            <<>> >>
    ELSE << << <<"j", "s">>, <<"G", "o">>, <<"R">> >>,
            << <<"G", "o">>, <<"S", "Q", "L">>, <<"J", "a", "v", "a">>, <<"C">>, <<"R">> >> >>

\* The step completes a load successfully
LoadCompletes == load.pc = "streaming" /\ load'.pc = "idle" /\ out'.status = 200

\* C17: when a load of a source of K rows completes, whatever the catalog
\* held before, the catalog holds K jobs with the ids 1..K in row order, the
\* response reports K, and the required skills of each job are the trimmed
\* non-empty comma-separated tokens of its row.
C17_LoadRoundTrip ==
    [][ LoadCompletes =>
          LET rows == Rows(load.body.csvPath)
          IN  /\ Len(jobs') = Len(rows)
              /\ out'.body.jobs_count = Len(rows)
              /\ \A i \in 1..Len(rows) :
                    /\ i <= Len(jobs')
                    /\ jobs'[i].id = i
                    /\ jobs'[i].company_name = rows[i].company_name
                    /\ jobs'[i].required_skills = ExpectedSkills(load.body.csvPath)[i] ]_vars

\* C17 witness: jobsdata.csv (3 rows, with blanks and empty tokens) is loaded
C17_Witness ==
    /\ out.route = "load"
    /\ out.status = 200
    /\ out.request.csvPath = "jobsdata.csv"
    /\ out.body.jobs_count = 3
    /\ jobs[2].id = 2
    /\ jobs[2].required_skills = << <<"J", "a", "v", "a">>, <<"G", "o">> >>

----------------------------------------------------------------------------
(* Properties of the apply route, checked under SpecApply *)

\* sendApplicationEmail has been called for the apply request at hand
SendInvoked ==
    \/ apply.pc \in {"sending", "delay"}
    \/ out.route = "apply" /\ out.calls # <<>>

\* C4: sendApplicationEmail is called only after an evaluation on the server
\* produced is_verified = true (an average of at least 70).
C4_NoEmailUnlessVerified == SendInvoked => serverVerified

\* The apply request just answered ran its batch to the end
BatchDone == out.route = "apply" /\ out.status = 200

----------------------------------------------------------------------------
(* Properties of the scoring, checked under SpecScore *)

\* The per-answer scores of the evaluate response just sent
ReportedScores ==
    [i \in 1..Len(out.body.detailed_results) |-> out.body.detailed_results[i].score]

AllNumbers(scores) == \A i \in 1..Len(scores) : scores[i] # NaN

\* C18: in every evaluate response over N >= 1 numeric scores, average_score
\* is the integer nearest to the mean (a half rounds up); passed_questions is
\* the number of scores >= 70; the threshold reported is 70 whatever the
\* request contains.
C18_AverageIsRoundedMean ==
    EvaluateOk =>
        LET scores == ReportedScores
            n == Len(scores)
            avg == out.body.average_score
        IN  /\ n = Len(out.request.questions)
            /\ (n > 0 /\ AllNumbers(scores)) =>
                  /\ 2 * n * avg - n <= 2 * SumSeq(scores)
                  /\ 2 * SumSeq(scores) < 2 * n * avg + n
            /\ out.body.summary.passed_questions
                  = Cardinality({i \in 1..n : scores[i] # NaN /\ scores[i] >= 70})
            /\ out.body.summary.total_questions = n
            /\ out.body.passing_threshold = 70

\* C18 witness: the scores 80, 75, 60, 90, 70 give average 75, verified, 4 passed
C18_Witness ==
    /\ EvaluateOk
    /\ ReportedScores = <<80, 75, 60, 90, 70>>
    /\ out.body.average_score = 75
    /\ out.body.is_verified
    /\ out.body.summary.passed_questions = 4

\* C18 second case: a mean of 69.5 is reported as 70, in a request that
\* carries a threshold of its own
C18_WitnessHalf ==
    /\ EvaluateOk
    /\ "passing_threshold" \in DOMAIN out.request
    /\ ReportedScores = <<69, 70>>
    /\ out.body.average_score = 70
    /\ out.body.passing_threshold = 70

\* The evaluations evaluateAnswer has returned to the loop in progress
ReturnedEvaluations ==
    IF ev.pc = "evaluating"
    THEN [i \in 1..Len(ev.evaluations) |-> ev.evaluations[i].evaluation]
    ELSE <<>>

\* C19: every evaluation evaluateAnswer returned has a score in 0..100 and is
\* passed exactly when that score is >= 70; every score of an evaluate
\* response is in 0..100.
C19_ScoreClamped ==
    /\ \A i \in 1..Len(ReturnedEvaluations) :
          LET e == ReturnedEvaluations[i]
          IN  e.score \in 0..100 /\ (e.passed <=> e.score >= 70)
    /\ EvaluateOk => \A i \in 1..Len(ReportedScores) : ReportedScores[i] \in 0..100

\* C20: every evaluation that enters the aggregation has a score equal to the
\* sum of its four subscores, each subscore within its range.
C20_ScoreIsSumOfSubscores ==
    \A i \in 1..Len(ReturnedEvaluations) :
        LET e == ReturnedEvaluations[i]
        IN  /\ e.score = e.accuracy + e.completeness + e.clarity + e.keyword_score
            /\ e.accuracy \in 0..40
            /\ e.completeness \in 0..30
            /\ e.clarity \in 0..20
            /\ e.keyword_score \in 0..10

----------------------------------------------------------------------------
(* Further properties of the questions / answers routes, checked under SpecEval *)

\* C21: every verification result returned by POST /evaluate or held in
\* evaluationCache aggregates exactly 5 answer evaluations.
C21_ExactlyFiveEvaluations ==
    /\ EvaluateOk =>
          /\ Len(out.body.detailed_results) = questionCount
          /\ out.body.summary.total_questions = questionCount
    /\ \A s \in DOMAIN evaluationCache :
          Len(evaluationCache[s].individual_evaluations) = questionCount

\* The generate request just answered got a parsed response of the oracle
OracleAnsweredGenerate ==
    out.route = "generate" /\ out.calls # <<>> /\ out.calls[1] \in 0..(MaxGen + 1)

\* C22: whatever number n of questions the oracle returned, generation
\* succeeds with the first min(n, 5) of them.
C22_FewerQuestionsNotFatal ==
    OracleAnsweredGenerate =>
        /\ out.status = 200
        /\ Len(out.body.questions) = Min(5, out.calls[1])
        /\ \A i \in 1..Len(out.body.questions) : out.body.questions[i].id = i

----------------------------------------------------------------------------
(* Properties of the resume routes, checked under SpecResume *)

\* The exchange just completed is an analysis request that carried a profile
ProfileAnalyzed == out.route = "analyze" /\ "resume" \in DOMAIN out.request

\* C23: analysis of a profile fails, with 400, exactly when the profile has
\* neither personal_info nor skills; every other profile is analyzed, and one
\* without experience entries is junior.
C23_FailsOnlyWithoutIdentityAndSkills ==
    ProfileAnalyzed =>
        LET resume == out.request.resume
        IN  IF "personal_info" \notin DOMAIN resume /\ "skills" \notin DOMAIN resume
            THEN out.status = 400
            ELSE /\ out.status = 200
                 /\ ("experience" \notin DOMAIN resume \/ resume.experience = <<>>)
                       => out.body.analysis.experience_level = "junior"

\* The profile of the resume exchange just completed was analyzed
Analyzed == out.route \in {"analyze", "loadResume"} /\ out.status = 200

\* The profile as it was submitted: the body of /analyze, the file of /load
SubmittedProfile ==
    IF out.route = "analyze" THEN out.request.resume
    ELSE ResumeFile(out.request.resumePath)

Elements(array) == {array[i] : i \in 1..Len(array)}

NoRepeats(array) == \A i, j \in 1..Len(array) : array[i] = array[j] => i = j

\* The position of the first occurrence of x in array
FirstIndex(array, x) == CHOOSE i \in 1..Len(array) :
                            array[i] = x /\ \A j \in 1..(i - 1) : array[j] # x

\* The elements of found are in the order of their first occurrence in source
FirstSeenOrder(found, source) ==
    \A i, j \in 1..Len(found) :
        (i < j /\ found[i] \in Elements(source) /\ found[j] \in Elements(source))
            => FirstIndex(source, found[i]) < FirstIndex(source, found[j])

\* Every skill of the extracted technical list that is not declared stands
\* behind every declared one
MinedAfterDeclared(technical, declared) ==
    \A i, j \in 1..Len(technical) :
        (technical[i] \in Elements(declared) /\ technical[j] \notin Elements(declared))
            => i < j

\* The parts of C24 that do not depend on which declared entries are kept
AdditiveInOrder ==
    LET skills == out.body.analysis.skills
        declared == Declared(SubmittedProfile, "technical")
    IN  /\ MinedAfterDeclared(skills.technical, declared)
        /\ FirstSeenOrder(skills.technical, declared)
        /\ NoRepeats(skills.technical)
        /\ NoRepeats(skills.soft)
        /\ NoRepeats(skills.languages)
        /\ FirstSeenOrder(skills.soft, Declared(SubmittedProfile, "soft"))
        /\ Elements(skills.technical)
              \subseteq Elements(declared) \cup Elements(commonTechs)
                          \cup Elements(ProjectSkills(SubmittedProfile))

\* The string has a character other than the space
HasVisibleCharacter(string) == \E k \in 1..Len(string) : string[k] # " "

\* C24 as claimed: every declared technical skill is in the extracted list,
\* mined skills stand behind the declared ones, no list repeats a string.
C24_EveryDeclaredSkillKept ==
    Analyzed =>
        /\ Elements(Declared(SubmittedProfile, "technical"))
              \subseteq Elements(out.body.analysis.skills.technical)
        /\ AdditiveInOrder

\* C24 amended: every declared technical skill that is not blank (empty or
\* white space only) is in the extracted list, blank entries are dropped,
\* mined skills stand behind the declared ones, no list repeats a string
\* (strings differing in case are different).
C24_NonBlankDeclaredSkillsKept ==
    Analyzed =>
        LET declared == Declared(SubmittedProfile, "technical")
            technical == out.body.analysis.skills.technical
        IN  /\ \A i \in 1..Len(declared) :
                  HasVisibleCharacter(declared[i]) => declared[i] \in Elements(technical)
            /\ \A i \in 1..Len(technical) : HasVisibleCharacter(technical[i])
            /\ AdditiveInOrder

\* C24 witness: declared [Java, java, Java, " ", R], experience text naming
\* java, SQL and "Going", projects in Go and R: extracted
\* [Java, java, R, Go, SQL]
C24_Witness ==
    /\ Analyzed
    /\ Len(Declared(SubmittedProfile, "technical")) = 5
    /\ out.body.analysis.skills.technical
          = << <<"J", "a", "v", "a">>, <<"j", "a", "v", "a">>, <<"R">>,
               <<"G", "o">>, <<"S", "Q", "L">> >>

\* C28: after a profile was analyzed, its declared skill lists hold the same
\* elements as when it was submitted, and the profile echoed by /load is the
\* content of the file.
C28_ExtractSkillsLeavesProfileUnchanged ==
    Analyzed =>
        /\ \A list \in {"technical", "soft", "languages"} :
              Declared(out.resume, list) = Declared(SubmittedProfile, list)
        /\ out.route = "loadResume" => out.body.resume = SubmittedProfile

----------------------------------------------------------------------------
(* Further properties of the apply route, checked under SpecApply *)

\* The sends of the batch in progress that have not returned or thrown
InFlight ==
    IF apply.pc \in {"sending", "delay"}
    THEN {i \in 1..Len(apply.sends) : apply.sends[i].outcome = "pending"}
    ELSE {}

\* C25: at most one send of a batch is in flight; while the send for job i
\* is in flight, the sends for the jobs before it have all ended and have
\* their records, and no later job has been sent to.
C25_SendsAreSequential ==
    /\ Cardinality(InFlight) <= 1
    /\ apply.pc \in {"sending", "delay"} =>
          /\ \A i \in InFlight : i = Len(apply.sends) /\ Len(apply.results) = i - 1
          /\ \A i \in 1..Len(apply.sends) : apply.sends[i].job = apply.body.matchedJobs[i]
          /\ \A i \in 1..Len(apply.results) :
                apply.results[i].status
                    = (IF apply.sends[i].outcome = "returned" THEN "sent" ELSE "failed")

\* C25 witness: the send for the second job is in flight after the first failed
C25_Witness ==
    /\ apply.pc = "sending"
    /\ InFlight = {2}
    /\ apply.results[1].status = "failed"

----------------------------------------------------------------------------
(* Order of evaluation, checked under SpecEval *)

\* The oracle calls made for the request are those for the pairs 1..n of
\* questions and answers, in that order, each but possibly the last returned
CallsInInputOrder(calls, questions, answers) ==
    /\ Len(calls) <= Len(questions)
    /\ \A i \in 1..Len(calls) :
          /\ calls[i].question = Field(questions[i], "question")
          /\ calls[i].answer = At(answers, i)
          /\ i < Len(calls) => calls[i].outcome = "ok"

\* Entry i of the evaluations belongs to pair i
ResultsInInputOrder(evaluations, questions, answers) ==
    \A i \in 1..Len(evaluations) :
        /\ i <= Len(questions)
        /\ evaluations[i].question_id = Field(questions[i], "id")
        /\ evaluations[i].skill = Field(questions[i], "skill")
        /\ evaluations[i].user_answer = At(answers, i)

\* C26: the oracle is called for one pair at a time in input order, the call
\* for pair i+1 only after the call for pair i returned, and entry i of
\* individual_evaluations (and of detailed_results) belongs to pair i.
C26_EvaluatedInInputOrder ==
    /\ ev.pc = "evaluating" =>
          /\ Len(ev.calls) = Len(ev.evaluations)
          /\ Len(ev.evaluations) < Len(ev.body.questions)
          /\ \A i \in 1..Len(ev.calls) : ev.calls[i].outcome = "ok"
          /\ CallsInInputOrder(ev.calls, ev.body.questions, ev.body.answers)
          /\ ResultsInInputOrder(ev.evaluations, ev.body.questions, ev.body.answers)
    /\ (EvaluateDone /\ HasBothArrays(out.request)) =>
          CallsInInputOrder(out.calls, out.request.questions, out.request.answers)
    /\ EvaluateOk =>
          /\ Len(out.calls) = Len(out.request.questions)
          /\ Len(out.body.detailed_results) = Len(out.request.questions)
          /\ \A i \in 1..Len(out.body.detailed_results) :
                /\ out.body.detailed_results[i].question_id
                      = Field(out.request.questions[i], "id")
                /\ out.body.detailed_results[i].skill
                      = Field(out.request.questions[i], "skill")
          /\ "sessionId" \in DOMAIN out.request =>
                ResultsInInputOrder(
                    evaluationCache[out.request.sessionId].individual_evaluations,
                    out.request.questions, out.request.answers)

\* C26 witness: two pairs were evaluated and cached, the second entry being
\* that of the second question
C26_Witness ==
    /\ EvaluateOk
    /\ "sessionId" \in DOMAIN out.request
    /\ Len(out.request.questions) = 2
    /\ out.calls[2].answer = out.request.answers[2]
    /\ evaluationCache[out.request.sessionId].individual_evaluations[2].question_id = 2

----------------------------------------------------------------------------
(* Properties of the evaluation cache, checked under SpecCache *)

\* The step completes an evaluation successfully for a request with a session id
CachingStep ==
    /\ out'.route = "evaluate"
    /\ out'.status = 200
    /\ ev.pc = "evaluating" \/ Len(out'.request.questions) = 0
    /\ "sessionId" \in DOMAIN out'.request

\* What GET /evaluation/:sessionId just answered is what the cache holds
RetrievedIsCached ==
    out.route = "getEvaluation" =>
        IF out.request \in DOMAIN evaluationCache
        THEN out.status = 200 /\ out.body.evaluation = evaluationCache[out.request]
        ELSE out.status = 404

\* C27: the cache starts empty; a step changes the entry of session id s only
\* when it completes a successful evaluation submitted with s, and then the
\* entry is the result of that evaluation; a retrieval for s answers the
\* entry of s, or 404 when there is none.
C27_CachePerSession ==
    /\ []RetrievedIsCached
    /\ [][ IF CachingStep
           THEN /\ DOMAIN evaluationCache'
                      = DOMAIN evaluationCache \cup {out'.request.sessionId}
                /\ \A s \in DOMAIN evaluationCache :
                      s # out'.request.sessionId => evaluationCache'[s] = evaluationCache[s]
                /\ LET result == evaluationCache'[out'.request.sessionId]
                   IN  /\ result.is_verified = out'.body.is_verified
                       /\ result.average_score = out'.body.average_score
                       /\ result.summary = out'.body.summary
           ELSE evaluationCache' = evaluationCache ]_vars

\* C27 witness: s1 retrieves its verified result while s2 holds a result
\* that is not verified
C27_Witness ==
    /\ out.route = "getEvaluation"
    /\ out.request = "s1"
    /\ out.status = 200
    /\ out.body.evaluation.is_verified
    /\ "s2" \in DOMAIN evaluationCache
    /\ ~evaluationCache["s2"].is_verified

\* C27 second case: nothing was submitted with s1, s2 has a result, s1 gets 404
C27_WitnessNotFound ==
    /\ out.route = "getEvaluation"
    /\ out.request = "s1"
    /\ out.status = 404
    /\ "s2" \in DOMAIN evaluationCache

----------------------------------------------------------------------------
(* Origin of the reference answers, checked under SpecEval *)

\* C30: the reference answer and the keywords handed to the EvaluationOracle
\* for question i of an evaluate request are those the QuestionOracle
\* generated for question i, whatever the request's question objects carry.
C30_ReferenceAnswersAreServerSide ==
    out.route = "evaluate" =>
        \A i \in 1..Len(out.calls) :
            /\ out.calls[i].correct_answer = OracleQuestion(i).correct_answer
            /\ out.calls[i].keywords = OracleQuestion(i).keywords

----------------------------------------------------------------------------
(* Properties of overlapping loads, checked under SpecLoads *)

\* No load is in progress
LoadsFinished == load.pc = "idle" /\ overlap.pc = "idle"

\* C29: once every load has finished, the catalog is empty or holds exactly
\* the rows of one source, once; a load that completes reports the number of
\* rows of its own source.
C29_LoadsNeverMix ==
    /\ LoadsFinished => (jobs = <<>> \/ jobs \in CompleteCatalogs)
    /\ (out.route = "load" /\ out.status = 200) =>
          out.body.jobs_count = Len(Rows(out.request.csvPath))

====
